---- MODULE Spec2Model ----
(***************************************************************************)
(* A model of k2/csrc/array_ops_inl.h: Transpose (with its tiled kernel),  *)
(* ExclusiveSum on Array2, ExclusiveSumDeref, Append, MaxPerSublist,       *)
(* RandUniformArray1 and ToContiguous.                                     *)
(*                                                                         *)
(* Memory is a family of Regions, each a sequence of cells.  An array view *)
(* is a record naming its Region, its element offset, its dimensions, its  *)
(* row stride and its context, as Array1 / Array2 do.                      *)
(***************************************************************************)
EXTENDS Integers, Sequences, FiniteSets, TLC

VARIABLES
    op,      \* the array operation the host thread is executing
    pc,      \* the host thread's position inside that operation
    args,    \* the arguments of the call
    mem,     \* Region id -> the Region's cells
    loc,     \* the host function's local variables
    thr,     \* device side: the state of every launched thread / index pair
    cache,   \* device side: the shared-memory tile of every thread block
    live,    \* the scratch allocations of the call that are still allocated
    reads,   \* the cells <<Region, index>> the current loop or kernel has read
    writes,  \* the cells <<Region, index>> the current loop or kernel has written
    ret      \* what the call returned

vars == <<op, pc, args, mem, loc, thr, cache, live, reads, writes, ret>>

(***************************************************************************)
(* Bounds of the model.                                                    *)
(***************************************************************************)
MaxRows == 3
MaxCols == 2

\* A view is contiguous (pad 0) or has a row stride one above its column count.
Pads == {0, 1}

(***************************************************************************)
(* Devices and contexts.                                                   *)
(***************************************************************************)
kCpu == "kCpu"
kCuda == "kCuda"

CpuContext == [id |-> 1, dev |-> kCpu]
CudaContext == [id |-> 2, dev |-> kCuda]
Contexts == {CpuContext, CudaContext}

\* Context::IsCompatible: both contexts denote the same device domain.
IsCompatible(c1, c2) == c1.id = c2.id

\* NumBlocks(size, block_size): blocks needed to cover size elements.
NumBlocks(size, block_size) == (size + block_size - 1) \div block_size

Uninit == -1

NoView == [region |-> 0, offset |-> 0, dim0 |-> 0, dim1 |-> 0,
           stride |-> 0, ctx |-> CpuContext]

Array2(region, offset, dim0, dim1, stride, ctx) ==
    [region |-> region, offset |-> offset, dim0 |-> dim0, dim1 |-> dim1,
     stride |-> stride, ctx |-> ctx]

\* p[k] for the pointer p = v.Data()
Load(m, v, k) == m[v.region][v.offset + k + 1]

\* p[k] = x for the pointer p = v.Data()
Store(m, v, k, x) == [m EXCEPT ![v.region][v.offset + k + 1] = x]

\* The cell <<Region, index>> behind p[k] for the pointer p = v.Data()
Cell(v, k) == <<v.region, v.offset + k + 1>>

\* The cells of a source Region the caller has filled: cell k holds 2^(k-1),
\* so that every cell differs and a sum tells which cells went into it.
Filled(n) == [k \in 1..n |-> 2 ^ (k - 1)]

\* The cells of a Region nobody has written yet.
Fresh(n) == [k \in 1..n |-> Uninit]

\* NewRegion(ctx, n elements): the id of the Region it allocates.
NewRegion(m) == Len(m) + 1

Max(a, b) == IF a > b THEN a ELSE b

(***************************************************************************)
(* Transpose                                                               *)
(***************************************************************************)
\* The tile of the kernel, scaled down with the views: kTransBlockRows is 8
\* and kTransTileDim is 32 in the code, a multiple of kTransBlockRows here too.
kTransBlockRows == 1
kTransTileDim == kTransBlockRows + kTransBlockRows

\* The K2_CHECKs at the head of Transpose.
TransposeChecks(c, src, dest) ==
    /\ IsCompatible(c, src.ctx)
    /\ IsCompatible(c, dest.ctx)
    /\ src.dim0 = dest.dim1
    /\ src.dim1 = dest.dim0

\* The source cells Transpose reads and the destination cells it writes.
TransposeReads(src) ==
    { Cell(src, j * src.stride + i) :
        j \in 0..(src.dim0 - 1), i \in 0..(src.dim1 - 1) }

TransposeWrites(src, dest) ==
    { Cell(dest, i * dest.stride + j) :
        j \in 0..(src.dim0 - 1), i \in 0..(src.dim1 - 1) }

RECURSIVE TransposeCpuLoop(_, _, _, _, _)
\* The kCpu branch: for i < cols, for j < rows, started at (i, j).
TransposeCpuLoop(m, src, dest, i, j) ==
    IF i >= src.dim1 THEN m
    ELSE IF j >= src.dim0 THEN TransposeCpuLoop(m, src, dest, i + 1, 0)
    ELSE TransposeCpuLoop(
             Store(m, dest, i * dest.stride + j, Load(m, src, j * src.stride + i)),
             src, dest, i, j + 1)

\* The threads of the launch: grid_size x block_size.
KernelThreads(rows, cols) ==
    { <<bx, by, tx, ty>> :
        bx \in 0..(NumBlocks(cols, kTransTileDim) - 1),
        by \in 0..(NumBlocks(rows, kTransTileDim) - 1),
        tx \in 0..(kTransTileDim - 1),
        ty \in 0..(kTransBlockRows - 1) }

KernelBlocks(rows, cols) ==
    { <<bx, by>> :
        bx \in 0..(NumBlocks(cols, kTransTileDim) - 1),
        by \in 0..(NumBlocks(rows, kTransTileDim) - 1) }

\* __shared__ T cache[kTransTileDim][kTransTileDim + 1], not initialized.
EmptyCache ==
    [c \in (0..(kTransTileDim - 1)) \X (0..kTransTileDim) |-> Uninit]

\* One thread's next loop index, and whether the loop goes on.
NextIter(i) == i + kTransBlockRows

\* The input index of thread t in the first loop of the kernel.
LoadX(t) == t[3] + t[1] * kTransTileDim
LoadY(t) == t[4] + t[2] * kTransTileDim

\* The output index of thread t in the second loop of the kernel.
StoreX(t) == t[3] + t[2] * kTransTileDim
StoreY(t) == t[4] + t[1] * kTransTileDim

\* The cache cell thread t fills at loop index i.
LoadCell(t, i) == <<t[4] + i, t[3]>>

\* A kernel whose second loop reads the cache cell its thread filled itself.
StoreCellOwn(t, i) == <<t[4] + i, t[3]>>

\* The cache cell thread t reads at loop index i.
StoreCell(t, i) == <<t[3], t[4] + i>>

\* The elements a view spans in its Region, from its first to its last.
Extent(v) == IF v.dim0 = 0 THEN 0 ELSE (v.dim0 - 1) * v.stride + v.dim1

\* A caller builds the views and calls Transpose(c, src, &dest); dest lies
\* in one of destRegions (Region 1 is the source's).
InitTransposeIn(destRegions) ==
    \E rows \in 0..MaxRows, cols \in 0..MaxCols,
       sp \in Pads, dp \in Pads, e0 \in 0..1, e1 \in 0..1,
       c \in Contexts, sc \in Contexts, dc \in Contexts,
       dr \in destRegions :
        LET src == Array2(1, 0, rows, cols, cols + sp, sc)
            dest == Array2(dr, 0, cols + e0, rows + e1, rows + e1 + dp, dc)
        IN /\ op = "Transpose"
           /\ pc = "call"
           /\ args = [c |-> c, src |-> src, dest |-> dest]
           /\ mem = IF dr = 1
                    THEN << Filled(Max(rows * src.stride, dest.dim0 * dest.stride)),
                            << >> >>
                    ELSE << Filled(rows * src.stride),
                            Fresh(dest.dim0 * dest.stride) >>
           /\ loc = [orig |-> src, stage |-> 1]
           /\ thr = << >>
           /\ cache = << >>
           /\ live = {}
           /\ reads = {}
           /\ writes = {}
           /\ ret = "none"

InitTranspose == InitTransposeIn({2})

\* A K2_CHECK of Transpose fails: the call is fatal.
TransposeFatal ==
    /\ op = "Transpose" /\ pc = "call"
    /\ ~TransposeChecks(args.c, args.src, args.dest)
    /\ pc' = "fatal"
    /\ UNCHANGED <<op, args, mem, loc, thr, cache, live, reads, writes, ret>>

\* d == kCpu: the double loop.
TransposeCpu ==
    /\ op = "Transpose" /\ pc = "call"
    /\ TransposeChecks(args.c, args.src, args.dest)
    /\ args.c.dev = kCpu
    /\ mem' = TransposeCpuLoop(mem, args.src, args.dest, 0, 0)
    /\ reads' = reads \cup TransposeReads(args.src)
    /\ writes' = writes \cup TransposeWrites(args.src, args.dest)
    /\ pc' = "returned"
    /\ UNCHANGED <<op, args, loc, thr, cache, live, ret>>

\* d == kCuda: TransposeKernel<<<grid_size, block_size>>> is launched.
TransposeLaunch ==
    /\ op = "Transpose" /\ pc = "call"
    /\ TransposeChecks(args.c, args.src, args.dest)
    /\ args.c.dev = kCuda
    /\ thr' = [t \in KernelThreads(args.src.dim0, args.src.dim1) |->
                  [ph |-> "load", i |-> 0]]
    /\ cache' = [b \in KernelBlocks(args.src.dim0, args.src.dim1) |-> EmptyCache]
    /\ pc' = "sync"
    /\ UNCHANGED <<op, args, mem, loc, live, reads, writes, ret>>

\* One iteration of a thread's first loop: input -> cache.
KernelLoad(t) ==
    /\ op = "Transpose" /\ pc = "sync"
    /\ thr[t].ph = "load"
    /\ LET i == thr[t].i
           x == LoadX(t)
           y == LoadY(t)
           k == (y + i) * args.src.stride + x
       IN /\ cache' =
                IF x < args.src.dim1 /\ (y + i) < args.src.dim0
                THEN [cache EXCEPT ![<<t[1], t[2]>>][LoadCell(t, i)] =
                          Load(mem, args.src, k)]
                ELSE cache
          /\ reads' =
                IF x < args.src.dim1 /\ (y + i) < args.src.dim0
                THEN reads \cup {Cell(args.src, k)}
                ELSE reads
          /\ thr' = [thr EXCEPT ![t] =
                        IF NextIter(i) < kTransTileDim
                        THEN [ph |-> "load", i |-> NextIter(i)]
                        ELSE [ph |-> "store", i |-> 0]]
    /\ UNCHANGED <<op, pc, args, mem, loc, live, writes, ret>>

\* __syncthreads(): no thread of the block is still in the first loop.
BlockBarrierPassed(t) ==
    \A u \in DOMAIN thr :
        (u[1] = t[1] /\ u[2] = t[2]) => thr[u].ph # "load"

\* One iteration of a thread's second loop: cache -> output.
KernelStore(t) ==
    /\ op = "Transpose" /\ pc = "sync"
    /\ thr[t].ph = "store"
    /\ BlockBarrierPassed(t)
    /\ LET i == thr[t].i
           x == StoreX(t)
           y == StoreY(t)
           k == (y + i) * args.dest.stride + x
       IN /\ mem' =
                IF x < args.src.dim0 /\ (y + i) < args.src.dim1
                THEN Store(mem, args.dest, k,
                           cache[<<t[1], t[2]>>][StoreCell(t, i)])
                ELSE mem
          /\ writes' =
                IF x < args.src.dim0 /\ (y + i) < args.src.dim1
                THEN writes \cup {Cell(args.dest, k)}
                ELSE writes
          /\ thr' = [thr EXCEPT ![t] =
                        IF NextIter(i) < kTransTileDim
                        THEN [ph |-> "store", i |-> NextIter(i)]
                        ELSE [ph |-> "done", i |-> 0]]
    /\ UNCHANGED <<op, pc, args, loc, cache, live, reads, ret>>

\* cudaDeviceSynchronize() returns once every thread has finished.
TransposeSync ==
    /\ op = "Transpose" /\ pc = "sync"
    /\ \A t \in DOMAIN thr : thr[t].ph = "done"
    /\ pc' = "returned"
    /\ thr' = << >>
    /\ cache' = << >>
    /\ UNCHANGED <<op, args, mem, loc, live, reads, writes, ret>>

\* The caller transposes the result back into a view shaped like the
\* original: Transpose(c, dest, &back), back in a Region of its own.
TransposeBack ==
    /\ op = "Transpose" /\ pc = "returned" /\ loc.stage = 1
    /\ LET back == Array2(NewRegion(mem), 0, loc.orig.dim0, loc.orig.dim1,
                          loc.orig.stride, args.c)
       IN /\ args' = [c |-> args.c, src |-> args.dest, dest |-> back]
          /\ mem' = Append(mem, Fresh(back.dim0 * back.stride))
    /\ loc' = [loc EXCEPT !.stage = 2]
    /\ pc' = "call"
    /\ reads' = {}
    /\ writes' = {}
    /\ UNCHANGED <<op, thr, cache, live, ret>>

NextTranspose ==
    \/ TransposeFatal
    \/ TransposeCpu
    \/ TransposeLaunch
    \/ \E t \in DOMAIN thr : KernelLoad(t)
    \/ \E t \in DOMAIN thr : KernelStore(t)
    \/ TransposeSync
    \/ TransposeBack

SpecTranspose == InitTranspose /\ [][NextTranspose]_vars

\* The element [i][j] of the view v in memory m.
At(m, v, i, j) == m[v.region][v.offset + i * v.stride + j + 1]

\* C4: when Transpose returns, dest[i][j] = M[j][i] for all i < C, j < R, on
\* the sequential loop and on the tiled kernel under every interleaving of
\* its threads; transposing the result back gives M again.
C4_TransposeCorrect ==
    (op = "Transpose" /\ pc = "returned") =>
        /\ \A i \in 0..(args.dest.dim0 - 1), j \in 0..(args.dest.dim1 - 1) :
              At(mem, args.dest, i, j) = At(mem, args.src, j, i)
        /\ loc.stage = 2 =>
              \A i \in 0..(loc.orig.dim0 - 1), j \in 0..(loc.orig.dim1 - 1) :
                  At(mem, args.dest, i, j) = At(mem, loc.orig, i, j)

\* The tiled kernel has transposed a strided view, whose row count is not a
\* multiple of the tile dimension, there and back.
C4_Witness ==
    /\ op = "Transpose" /\ pc = "returned" /\ loc.stage = 2
    /\ args.c.dev = kCuda
    /\ loc.orig.dim0 % kTransTileDim # 0
    /\ loc.orig.dim0 > kTransTileDim
    /\ loc.orig.dim1 >= 2
    /\ loc.orig.stride > loc.orig.dim1
    /\ Cardinality(writes) = loc.orig.dim0 * loc.orig.dim1

(***************************************************************************)
(* ExclusiveSum on Array2, and ExclusiveSumDeref                           *)
(***************************************************************************)
ElementSize == 4
PtrElementSize == 8
MaxSlack == 1

\* What a read outside every Region may yield.
Garbage == {Uninit, 0, 1}

\* region->num_bytes of the Region of view v, whose elements take esize bytes.
NumBytes(m, v, esize) == Len(m[v.region]) * esize

\* p[k] for p = v.Data(); outside the Region the read yields g.
LoadOr(m, v, k, g) ==
    IF v.offset + k + 1 \in 1..Len(m[v.region]) THEN Load(m, v, k) ELSE g

RECURSIVE ExclusiveSum1D(_, _, _, _, _, _, _, _, _)
\* ExclusiveSum(ctx, n, src, dest) over pointers src = sv.Data() + sbase and
\* dest = dv.Data() + dbase: dest[i] = src[0] + ... + src[i-1]; it reads
\* src[0..n-1].  Here from index i on, with the running sum.
ExclusiveSum1D(m, n, sv, sbase, dv, dbase, i, sum, g) ==
    IF i >= n THEN m
    ELSE LET prev == LoadOr(m, sv, sbase + i, g)
         IN ExclusiveSum1D(Store(m, dv, dbase + i, sum),
                           n, sv, sbase, dv, dbase, i + 1, sum + prev, g)

\* A row pointer that takes the rows for contiguous.
RowBaseDense(v, i) == i * v.dim1

\* The row pointer of ExclusiveSumPerRow: acc.Row(i) = data + i * stride.
RowBase(v, i) == i * v.stride

RECURSIVE ExclusiveSumPerRowFrom(_, _, _, _, _)
\* internal::ExclusiveSumPerRow from row i on.
ExclusiveSumPerRowFrom(m, src, dest, i, g) ==
    IF i >= dest.dim0 THEN m
    ELSE ExclusiveSumPerRowFrom(
             ExclusiveSum1D(m, dest.dim1, src, RowBase(src, i),
                            dest, RowBase(dest, i), 0, 0, g),
             src, dest, i + 1, g)

ExclusiveSumPerRow(m, src, dest, g) == ExclusiveSumPerRowFrom(m, src, dest, 0, g)

\* The source cells ExclusiveSumPerRow reads: dest->Dim1() of each row.
PerRowReads(src, dest) ==
    { Cell(src, RowBase(src, i) + k) :
        i \in 0..(dest.dim0 - 1), k \in 0..(dest.dim1 - 1) }

PerRowWrites(dest) ==
    { Cell(dest, RowBase(dest, i) + k) :
        i \in 0..(dest.dim0 - 1), k \in 0..(dest.dim1 - 1) }

\* The dimension that is summed and the other one, after the swap.
MajorDim(v, axis) == IF axis = 1 THEN v.dim1 ELSE v.dim0
MinorDim(v, axis) == IF axis = 1 THEN v.dim0 ELSE v.dim1

\* The Region capacity ExclusiveSum demands when dest is one longer.
CapacityNeeded(src, axis) ==
    (MajorDim(src, axis) * MinorDim(src, axis) + 1) * ElementSize

\* The K2_CHECKs at the head of ExclusiveSum(src, dest, axis).
ExclusiveSumChecks(m, src, dest, axis) ==
    /\ axis = 0 \/ axis = 1
    /\ IsCompatible(src.ctx, dest.ctx)
    /\ MinorDim(dest, axis) = MinorDim(src, axis)
    /\ \/ MajorDim(dest, axis) = MajorDim(src, axis)
       \/ MajorDim(dest, axis) = MajorDim(src, axis) + 1
    /\ MajorDim(dest, axis) = MajorDim(src, axis) + 1 =>
          NumBytes(m, src, ElementSize) - src.offset * ElementSize
              >= CapacityNeeded(src, axis)

\* Array2<T> src_trans(src_minor_dim, src_major_dim, src_major_dim, 0, region)
SrcTrans(m, src) ==
    Array2(NewRegion(m), 0, src.dim1, src.dim0, src.dim0, src.ctx)

\* The elements of src_trans_region: always one more than the source holds.
SrcTransSize(src) == src.dim0 * src.dim1 + 1

\* Array2<T> dest_trans(dest_minor_dim, dest_major_dim, dest_major_dim, 0, region)
DestTrans(m, src, dest) ==
    Array2(NewRegion(m), 0, dest.dim1, dest.dim0, dest.dim0, src.ctx)

\* A caller builds the views and calls ExclusiveSum(src, &dest, axis); dest
\* lies in one of destRegions (Region 1 is the source's).
InitExclusiveSumIn(destRegions) ==
    \E rows \in 0..MaxRows, cols \in 0..MaxCols,
       sp \in Pads, dp \in Pads, off \in 0..1, slack \in 0..MaxSlack,
       axis \in 0..2, e \in 0..2, f \in 0..1,
       sc \in Contexts, dc \in Contexts, dr \in destRegions :
        LET src == Array2(1, off, rows, cols, cols + sp, sc)
            d0 == IF axis = 1 THEN rows + f ELSE rows + e
            d1 == IF axis = 1 THEN cols + e ELSE cols + f
            dest == Array2(dr, 0, d0, d1, d1 + dp, dc)
            n1 == off + Extent(src) + slack
        IN /\ op = "ExclusiveSum"
           /\ pc = "call"
           /\ args = [src |-> src, dest |-> dest, axis |-> axis]
           /\ mem = IF dr = 1
                    THEN << Filled(Max(n1, d0 * dest.stride)), << >> >>
                    ELSE << Filled(n1), Fresh(d0 * dest.stride) >>
           /\ loc = [orig |-> src, stage |-> 0]
           /\ thr = << >>
           /\ cache = << >>
           /\ live = {}
           /\ reads = {}
           /\ writes = {}
           /\ ret = "none"

\* A K2_CHECK of ExclusiveSum fails: the call is fatal.
ExclusiveSumFatal ==
    /\ op = "ExclusiveSum" /\ pc = "call"
    /\ ~ExclusiveSumChecks(mem, args.src, args.dest, args.axis)
    /\ pc' = "fatal"
    /\ UNCHANGED <<op, args, mem, loc, thr, cache, live, reads, writes, ret>>

\* axis == 1: internal::ExclusiveSumPerRow(src, dest).
ExclusiveSumAxis1 ==
    /\ op = "ExclusiveSum" /\ pc = "call"
    /\ ExclusiveSumChecks(mem, args.src, args.dest, args.axis)
    /\ args.axis = 1
    /\ \E g \in Garbage :
          mem' = ExclusiveSumPerRow(mem, args.src, args.dest, g)
    /\ reads' = PerRowReads(args.src, args.dest)
    /\ writes' = PerRowWrites(args.dest)
    /\ pc' = "returned"
    /\ UNCHANGED <<op, args, loc, thr, cache, live, ret>>

\* axis == 0, first step: src_trans is allocated and Transpose(ctx, src,
\* &src_trans) fills it (Transpose returns only when its result is written).
ExclusiveSumTransposeIn ==
    /\ op = "ExclusiveSum" /\ pc = "call"
    /\ ExclusiveSumChecks(mem, args.src, args.dest, args.axis)
    /\ args.axis = 0
    /\ LET st == SrcTrans(mem, args.src)
           m1 == Append(mem, Fresh(SrcTransSize(args.src)))
           ok == TransposeChecks(args.src.ctx, args.src, st)
       IN /\ mem' = IF ok THEN TransposeCpuLoop(m1, args.src, st, 0, 0) ELSE m1
          /\ loc' = [loc EXCEPT !.stage = 1] @@ [src_trans |-> st]
          /\ reads' = IF ok THEN TransposeReads(args.src) ELSE {}
          /\ writes' = IF ok THEN TransposeWrites(args.src, st)
                       ELSE {}
          /\ pc' = IF ok THEN "summing" ELSE "fatal"
    /\ UNCHANGED <<op, args, thr, cache, live, ret>>

\* axis == 0, second step: dest_trans is allocated and
\* internal::ExclusiveSumPerRow(src_trans, &dest_trans) fills it.
ExclusiveSumTransRows ==
    /\ op = "ExclusiveSum" /\ pc = "summing"
    /\ LET dt == DestTrans(mem, args.src, args.dest)
           m1 == Append(mem, Fresh(dt.dim0 * dt.dim1))
       IN /\ \E g \in Garbage :
                mem' = ExclusiveSumPerRow(m1, loc.src_trans, dt, g)
          /\ loc' = [loc EXCEPT !.stage = 2] @@ [dest_trans |-> dt]
          /\ reads' = PerRowReads(loc.src_trans, dt)
          /\ writes' = PerRowWrites(dt)
    /\ pc' = "transposing"
    /\ UNCHANGED <<op, args, thr, cache, live, ret>>

\* axis == 0, last step: Transpose(ctx, dest_trans, dest).
ExclusiveSumTransposeOut ==
    /\ op = "ExclusiveSum" /\ pc = "transposing"
    /\ LET ok == TransposeChecks(args.src.ctx, loc.dest_trans, args.dest)
       IN /\ mem' = IF ok
                    THEN TransposeCpuLoop(mem, loc.dest_trans, args.dest, 0, 0)
                    ELSE mem
          /\ reads' = IF ok THEN TransposeReads(loc.dest_trans) ELSE {}
          /\ writes' = IF ok
                       THEN TransposeWrites(loc.dest_trans, args.dest)
                       ELSE {}
          /\ pc' = IF ok THEN "returned" ELSE "fatal"
    /\ loc' = [loc EXCEPT !.stage = 3]
    /\ UNCHANGED <<op, args, thr, cache, live, ret>>

NextExclusiveSum2 ==
    \/ ExclusiveSumFatal
    \/ ExclusiveSumAxis1
    \/ ExclusiveSumTransposeIn
    \/ ExclusiveSumTransRows
    \/ ExclusiveSumTransposeOut

\* An Array1 as a view of one row.
Array1(region, offset, dim, ctx) == Array2(region, offset, 1, dim, dim, ctx)

\* PtrPtr::operator[]: *(data[i]).  The pointers of Region 1 point into
\* Region 2; a pointer read outside the Region points nowhere and yields g.
Deref(m, v, i, g) ==
    IF v.offset + i + 1 \in 1..Len(m[v.region])
    THEN m[2][Load(m, v, i)]
    ELSE g

RECURSIVE ExclusiveSumDerefLoop(_, _, _, _, _, _, _)
\* ExclusiveSum(ctx, n, PtrPtr(src.Data()), dest->Data()) from index i on.
ExclusiveSumDerefLoop(m, n, sv, dv, i, sum, g) ==
    IF i >= n THEN m
    ELSE LET prev == Deref(m, sv, i, g)
         IN ExclusiveSumDerefLoop(Store(m, dv, i, sum), n, sv, dv,
                                  i + 1, sum + prev, g)

\* The K2_CHECKs at the head of ExclusiveSumDeref(src, dest).
ExclusiveSumDerefChecks(m, src, dest) ==
    /\ IsCompatible(src.ctx, dest.ctx)
    /\ dest.dim1 = src.dim1 \/ dest.dim1 = src.dim1 + 1
    /\ dest.dim1 = src.dim1 + 1 =>
          NumBytes(m, src, PtrElementSize) - src.offset * PtrElementSize
              >= dest.dim1 * PtrElementSize

\* A caller builds an array of pointers and calls ExclusiveSumDeref(src, &dest).
InitExclusiveSumDeref ==
    \E dim \in 0..MaxRows, off \in 0..1, slack \in 0..MaxSlack, e \in 0..2,
       sc \in Contexts, dc \in Contexts :
        LET n1 == off + dim + slack
        IN /\ op = "ExclusiveSumDeref"
           /\ pc = "call"
           /\ args = [src |-> Array1(1, off, dim, sc),
                      dest |-> Array1(3, 0, dim + e, dc), axis |-> 1]
           /\ mem = << [k \in 1..n1 |-> k], Filled(n1), Fresh(dim + e) >>
           /\ loc = [orig |-> Array1(1, off, dim, sc), stage |-> 0]
           /\ thr = << >>
           /\ cache = << >>
           /\ live = {}
           /\ reads = {}
           /\ writes = {}
           /\ ret = "none"

\* A K2_CHECK of ExclusiveSumDeref fails: the call is fatal.
ExclusiveSumDerefFatal ==
    /\ op = "ExclusiveSumDeref" /\ pc = "call"
    /\ ~ExclusiveSumDerefChecks(mem, args.src, args.dest)
    /\ pc' = "fatal"
    /\ UNCHANGED <<op, args, mem, loc, thr, cache, live, reads, writes, ret>>

\* The checks pass: the sum over the dereferenced pointers.
ExclusiveSumDerefRun ==
    /\ op = "ExclusiveSumDeref" /\ pc = "call"
    /\ ExclusiveSumDerefChecks(mem, args.src, args.dest)
    /\ \E g \in Garbage :
          mem' = ExclusiveSumDerefLoop(mem, args.dest.dim1, args.src,
                                       args.dest, 0, 0, g)
    /\ reads' = reads \cup { Cell(args.src, i) : i \in 0..(args.dest.dim1 - 1) }
    /\ writes' = writes \cup { Cell(args.dest, i) : i \in 0..(args.dest.dim1 - 1) }
    /\ pc' = "returned"
    /\ UNCHANGED <<op, args, loc, thr, cache, live, ret>>

NextExclusiveSum ==
    \/ NextExclusiveSum2
    \/ ExclusiveSumDerefFatal
    \/ ExclusiveSumDerefRun

InitExclusiveSum == InitExclusiveSumIn({2}) \/ InitExclusiveSumDeref

SpecExclusiveSum == InitExclusiveSum /\ [][NextExclusiveSum]_vars

\* Element i of line `line` along the summed axis.
LineElem(m, v, axis, line, i) ==
    IF axis = 1 THEN At(m, v, line, i) ELSE At(m, v, i, line)

RECURSIVE LineSum(_, _, _, _, _)
\* The sum of the elements [0, i) of a line of the source.
LineSum(m, v, axis, line, i) ==
    IF i = 0 THEN 0
    ELSE LineSum(m, v, axis, line, i - 1) + LineElem(m, v, axis, line, i - 1)

\* C3: when the 2-D ExclusiveSum returns, every line of dest along the summed
\* axis is the exclusive prefix sum of the same line of src: element 0 is 0,
\* element i is the sum of the source elements [0, i), and the extra last
\* element of a longer dest is the line's total; on axis 0, where the sum goes
\* through two transposes, as on axis 1.
C3_ExclusiveSumCorrect ==
    (op = "ExclusiveSum" /\ pc = "returned") =>
        \A line \in 0..(MinorDim(args.dest, args.axis) - 1),
           i \in 0..(MajorDim(args.dest, args.axis) - 1) :
            LineElem(mem, args.dest, args.axis, line, i)
                = LineSum(mem, args.src, args.axis, line, i)

\* A column-axis sum of a strided source of two lines or more, with the
\* trailing total, has returned.
C3_Witness ==
    /\ op = "ExclusiveSum" /\ pc = "returned"
    /\ args.axis = 0
    /\ args.src.dim0 >= 2 /\ args.src.dim1 >= 2
    /\ args.src.stride > args.src.dim1
    /\ args.dest.dim0 = args.src.dim0 + 1
    /\ At(mem, args.dest, args.src.dim0, 1) > 0

\* C9: a call the capacity check has accepted reads source positions inside
\* the source's Region only.
C9_ReadsInsideRegion ==
    (op \in {"ExclusiveSum", "ExclusiveSumDeref"}) =>
        \A c \in reads : c[2] \in 1..Len(mem[c[1]])

(***************************************************************************)
(* MaxPerSublist                                                           *)
(***************************************************************************)
MaxSubRows == 2
MaxRowLen == 2

\* The element values and the default values the callers use.
Values == {1, 3}
Defaults == {0, 2, 4}

\* MaxOp<T>: the larger of two values.
MaxOp(a, b) == IF b > a THEN b ELSE a

\* The K2_CHECKs at the head of MaxPerSublist.
MaxPerSublistChecks(src, max_values) ==
    /\ src.num_axes = 2
    /\ src.dim0 = max_values.dim1
    /\ IsCompatible(src.ctx, max_values.ctx)

\* An inner loop whose comparison is turned around.
CpuMaxStepLess(elem, max_val) == IF elem < max_val THEN elem ELSE max_val

\* One pass of the inner loop of the kCpu branch: elem > max_val ? elem : max_val
CpuMaxStep(elem, max_val) == IF elem > max_val THEN elem ELSE max_val

RECURSIVE CpuRowMax(_, _, _, _)
\* for (; j < row_end; j++) over values_data, with max_val so far.
CpuRowMax(values, j, row_end, max_val) ==
    IF j >= row_end THEN max_val
    ELSE CpuRowMax(values, j + 1, row_end, CpuMaxStep(values[j + 1], max_val))

RECURSIVE MaxPerSublistCpuLoop(_, _, _, _, _, _, _)
\* The kCpu branch from row i on; j runs on from row to row.
MaxPerSublistCpuLoop(m, row_splits, values, default_value, out, i, j) ==
    IF i >= Len(row_splits) - 1 THEN m
    ELSE LET row_end == row_splits[i + 2]
             max_val == CpuRowMax(values, j, row_end, default_value)
         IN MaxPerSublistCpuLoop(Store(m, out, i, max_val), row_splits, values,
                                 default_value, out, i + 1, Max(j, row_end))

RECURSIVE SegmentReduce(_, _, _, _)
\* cub's reduction of the segment [b, e) of values with MaxOp, from init.
SegmentReduce(values, b, e, init) ==
    IF b >= e THEN init
    ELSE SegmentReduce(values, b + 1, e, MaxOp(init, values[b + 1]))

RECURSIVE DeviceSegmentedReduce(_, _, _, _, _, _)
\* cub::DeviceSegmentedReduce::Reduce(..., values_data, output_data, num_rows,
\* row_splits, row_splits + 1, max_op, default_value, stream), from segment i on.
DeviceSegmentedReduce(m, row_splits, values, default_value, out, i) ==
    IF i >= Len(row_splits) - 1 THEN m
    ELSE DeviceSegmentedReduce(
             Store(m, out, i,
                   SegmentReduce(values, row_splits[i + 1], row_splits[i + 2],
                                 default_value)),
             row_splits, values, default_value, out, i + 1)

RECURSIVE RowSplitsOf(_)
\* The row-splits of rows of the given lengths: 0 and the running sums.
RowSplitsOf(lens) ==
    IF lens = << >> THEN <<0>>
    ELSE LET head == RowSplitsOf(SubSeq(lens, 1, Len(lens) - 1))
         IN Append(head, head[Len(head)] + lens[Len(lens)])

\* A caller builds a ragged array and calls MaxPerSublist(src, default, &max_values).
InitMaxPerSublist ==
    \E n \in 0..MaxSubRows, axes \in 2..3, e \in 0..1,
       sc \in Contexts, dc \in Contexts, d \in Defaults :
      \E lens \in [1..n -> 0..MaxRowLen] :
        LET splits == RowSplitsOf(lens)
        IN \E values \in [1..splits[n + 1] -> Values] :
           /\ op = "MaxPerSublist"
           /\ pc = "call"
           /\ args = [src |-> [num_axes |-> axes, dim0 |-> n, ctx |-> sc,
                               row_splits |-> splits, values |-> values],
                      default_value |-> d,
                      max_values |-> Array1(1, 0, n + e, dc)]
           /\ mem = << Fresh(n + e) >>
           /\ loc = [temp_storage_bytes |-> 0]
           /\ thr = << >>
           /\ cache = << >>
           /\ live = {}
           /\ reads = {}
           /\ writes = {}
           /\ ret = "none"

\* A K2_CHECK of MaxPerSublist fails: the call is fatal.
MaxPerSublistFatal ==
    /\ op = "MaxPerSublist" /\ pc = "call"
    /\ ~MaxPerSublistChecks(args.src, args.max_values)
    /\ pc' = "fatal"
    /\ UNCHANGED <<op, args, mem, loc, thr, cache, live, reads, writes, ret>>

\* The kCpu branch.
MaxPerSublistCpu ==
    /\ op = "MaxPerSublist" /\ pc = "call"
    /\ MaxPerSublistChecks(args.src, args.max_values)
    /\ args.src.ctx.dev = kCpu
    /\ mem' = MaxPerSublistCpuLoop(mem, args.src.row_splits, args.src.values,
                                   args.default_value, args.max_values,
                                   0, args.src.row_splits[1])
    /\ pc' = "returned"
    /\ UNCHANGED <<op, args, loc, thr, cache, live, reads, writes, ret>>

\* The kCuda branch, first Reduce call: d_temp_storage is NULL, so the call
\* only reports the size of the workspace it needs.
MaxPerSublistSize ==
    /\ op = "MaxPerSublist" /\ pc = "call"
    /\ MaxPerSublistChecks(args.src, args.max_values)
    /\ args.src.ctx.dev = kCuda
    /\ loc' = [loc EXCEPT !.temp_storage_bytes = 1]
    /\ pc' = "sized"
    /\ UNCHANGED <<op, args, mem, thr, cache, live, reads, writes, ret>>

\* d_temp_storage = c->Allocate(temp_storage_bytes, &deleter_context).
MaxPerSublistAllocate ==
    /\ op = "MaxPerSublist" /\ pc = "sized"
    /\ live' = live \cup {"d_temp_storage"}
    /\ pc' = "allocated"
    /\ UNCHANGED <<op, args, mem, loc, thr, cache, reads, writes, ret>>

\* The second Reduce call queues the reduction on c->GetCudaStream().
MaxPerSublistReduce ==
    /\ op = "MaxPerSublist" /\ pc = "allocated"
    /\ thr' = [k \in {"reduce"} |-> [ph |-> "pending", uses |-> {"d_temp_storage"}]]
    /\ pc' = "launched"
    /\ UNCHANGED <<op, args, mem, loc, cache, live, reads, writes, ret>>

\* c->Deallocate(d_temp_storage, deleter_context), and the function returns.
MaxPerSublistDeallocate ==
    /\ op = "MaxPerSublist" /\ pc = "launched"
    /\ live' = live \ {"d_temp_storage"}
    /\ pc' = "returned"
    /\ UNCHANGED <<op, args, mem, loc, thr, cache, reads, writes, ret>>

\* The device runs the queued reduction.
ReduceRuns ==
    /\ op = "MaxPerSublist"
    /\ "reduce" \in DOMAIN thr /\ thr["reduce"].ph = "pending"
    /\ mem' = DeviceSegmentedReduce(mem, args.src.row_splits, args.src.values,
                                    args.default_value, args.max_values, 0)
    /\ thr' = [thr EXCEPT !["reduce"].ph = "done"]
    /\ UNCHANGED <<op, pc, args, loc, cache, live, reads, writes, ret>>

NextMaxPerSublist ==
    \/ MaxPerSublistFatal
    \/ MaxPerSublistCpu
    \/ MaxPerSublistSize
    \/ MaxPerSublistAllocate
    \/ MaxPerSublistReduce
    \/ MaxPerSublistDeallocate
    \/ ReduceRuns

SpecMaxPerSublist == InitMaxPerSublist /\ [][NextMaxPerSublist]_vars

\* The elements of row i of the ragged array.
RowElems(src, i) ==
    { src.values[k] : k \in (src.row_splits[i + 1] + 1)..src.row_splits[i + 2] }

\* MaxPerSublist has returned and the device has nothing of it left to run.
MaxPerSublistDone ==
    /\ op = "MaxPerSublist" /\ pc = "returned"
    /\ \A k \in DOMAIN thr : thr[k].ph = "done"

IsMaxOf(x, S) == x \in S /\ \A y \in S : y <= x

\* C2 as stated: max_values[i] is the default value for an empty row and the
\* true maximum of the row's elements for a non-empty one.
C2_TrueMaximum ==
    MaxPerSublistDone =>
        \A i \in 0..(args.src.dim0 - 1) :
            IF RowElems(args.src, i) = {}
            THEN Load(mem, args.max_values, i) = args.default_value
            ELSE IsMaxOf(Load(mem, args.max_values, i), RowElems(args.src, i))

\* C2, amended: on both backends max_values[i] is the maximum of the default
\* value and the elements of row i: the default value for an empty row, and
\* for a non-empty row the larger of the row's maximum and the default value.
C2_MaximumWithDefault ==
    MaxPerSublistDone =>
        \A i \in 0..(args.src.dim0 - 1) :
            IsMaxOf(Load(mem, args.max_values, i),
                    RowElems(args.src, i) \cup {args.default_value})

\* The device has finished a call with an empty row and a row whose maximum
\* exceeds the default value, the larger element not being the last.
C2_Witness ==
    /\ MaxPerSublistDone
    /\ args.src.dim0 = 2
    /\ RowElems(args.src, 0) = {}
    /\ RowElems(args.src, 1) = {1, 3}
    /\ args.src.values[1] = 3
    /\ args.default_value = 2
    /\ args.src.ctx.dev = kCuda
    /\ Load(mem, args.max_values, 1) = 3

\* C8: no scratch allocation is released while a launch that uses it is still
\* pending on the stream.
C8_NoReleaseWhilePending ==
    \A k \in DOMAIN thr :
        (thr[k].ph = "pending") => (thr[k].uses \subseteq live)

(***************************************************************************)
(* Append                                                                  *)
(***************************************************************************)
MaxArrays == 2
MaxLen == 2

\* The heuristic numbers of Append, scaled down with the arrays:
\* 512 (the rectangular-kernel slack), 256 and 8192 (the block dimension's
\* first value and its cap).
kRectSlack == 1
kBlockDimInit == 1
kBlockDimMax == 2

\* The weight of the block number in an index_map entry: 2^32 in the code,
\* 2^16 here (the model checker's integers are 32 bits wide).
BlockShift == 2 ^ 16

\* row_splits_vec: 0 and the running sums of src[i]->Dim().
RowSplitsVec(src) == RowSplitsOf([k \in 1..Len(src) |-> src[k].dim1])

RECURSIVE MaxDimFrom(_, _, _)
\* max_dim, from source i (1-based) on.
MaxDimFrom(src, i, max_dim) ==
    IF i > Len(src) THEN max_dim
    ELSE MaxDimFrom(src, i + 1,
                    IF src[i].dim1 > max_dim THEN src[i].dim1 ELSE max_dim)

\* An ans that reuses the Region of the first source.
AppendAnsInSource(m, c, ans_size) == Array1(1, 0, ans_size, c)

\* Array1<T> ans(c, ans_size): a Region of its own.
AppendAns(m, c, ans_size) == Array1(NewRegion(m), 0, ans_size, c)

\* The source element src[i]->Data()[j] as context c reads it: a pointer of an
\* incompatible context is not readable there and yields g.
SrcElem(m, c, v, j, g) == IF IsCompatible(c, v.ctx) THEN Load(m, v, j) ELSE g

RECURSIVE CopyElems(_, _, _, _, _, _, _)
\* memcpy(ans_data, this_src_data, sizeof(T) * this_dim), from element j on.
CopyElems(m, c, v, ans, at, j, g) ==
    IF j >= v.dim1 THEN m
    ELSE CopyElems(Store(m, ans, at + j, SrcElem(m, c, v, j, g)),
                   c, v, ans, at, j + 1, g)

RECURSIVE AppendCpuLoop(_, _, _, _, _, _, _)
\* The kCpu branch from source i (1-based) on; ans_data has advanced by `at`.
AppendCpuLoop(m, c, src, ans, i, at, g) ==
    IF i > Len(src) THEN m
    ELSE AppendCpuLoop(CopyElems(m, c, src[i], ans, at, 0, g),
                       c, src, ans, i + 1, at + src[i].dim1, g)

\* max_dim < 2 * avg_input_size + 512
UseRectangular(max_dim, ans_size, num_arrays) ==
    max_dim < 2 * (ans_size \div num_arrays) + kRectSlack

RECURSIVE BlockDimFrom(_, _)
\* while (block_dim * 4 < avg_input_size && block_dim < 8192) block_dim *= 2
BlockDimFrom(block_dim, avg_input_size) ==
    IF block_dim * 4 < avg_input_size /\ block_dim < kBlockDimMax
    THEN BlockDimFrom(block_dim * 2, avg_input_size)
    ELSE block_dim

BlockDim(ans_size, num_arrays) ==
    BlockDimFrom(kBlockDimInit, ans_size \div num_arrays)

\* The index_map entries of one source: (j << 32) + i for each of its blocks.
IndexMapOf(i, this_array_size, block_dim) ==
    [j \in 1..((this_array_size + block_dim - 1) \div block_dim) |->
        (j - 1) * BlockShift + i]

RECURSIVE IndexMapFrom(_, _, _)
\* index_map, from source i (0-based) on.
IndexMapFrom(src, i, block_dim) ==
    IF i >= Len(src) THEN << >>
    ELSE IndexMapOf(i, src[i + 1].dim1, block_dim)
            \o IndexMapFrom(src, i + 1, block_dim)

\* orig_i = (uint32_t)index and block_index = (uint32_t)(index >> 32)
OrigI(index) == index % BlockShift
BlockIndex(index) == (index \div BlockShift) % BlockShift

\* What one index pair of lambda_set_data copies: <<source, element, ans index>>,
\* or << >> when j is beyond the source.
RectCopy(row_splits, i, j) ==
    LET row_start == row_splits[i + 1]
        row_end == row_splits[i + 2]
    IN IF j < row_end - row_start THEN <<i, j, row_start + j>> ELSE << >>

\* The same for lambda_set_data_blocks.
BlockCopy(row_splits, index_map, block_dim, i, j) ==
    LET index == index_map[i + 1]
        orig_i == OrigI(index)
        row_start == row_splits[orig_i + 1]
        row_end == row_splits[orig_i + 2]
        orig_j == BlockIndex(index) * block_dim + j
    IN IF orig_j < row_end - row_start
       THEN <<orig_i, orig_j, row_start + orig_j>>
       ELSE << >>

\* Eval2(c, n0, n1, lambda): one pending invocation per index pair, each
\* reading the scratch arrays the lambda has captured pointers into.
Eval2Pairs(n0, n1, uses) ==
    [p \in (0..(n0 - 1)) \X (0..(n1 - 1)) |-> [ph |-> "pending", uses |-> uses]]

\* A caller collects the source arrays and calls Append(num_arrays, src).
InitAppend ==
    \E n \in 0..MaxArrays :
      \E lens \in [1..n -> 0..MaxLen], ctxs \in [1..n -> Contexts] :
        LET splits == RowSplitsOf(lens)
        IN /\ op = "Append"
           /\ pc = "call"
           /\ args = [num_arrays |-> n,
                      src |-> [k \in 1..n |-> Array1(k, 0, lens[k], ctxs[k])]]
           /\ mem = [k \in 1..n |->
                        [j \in 1..lens[k] |-> 2 ^ (splits[k] + j - 1)]]
           /\ loc = [strategy |-> "none"]
           /\ thr = << >>
           /\ cache = << >>
           /\ live = {}
           /\ reads = {}
           /\ writes = {}
           /\ ret = "none"

\* K2_CHECK_GT(num_arrays, 0) fails: the call is fatal.
AppendFatal ==
    /\ op = "Append" /\ pc = "call"
    /\ ~(args.num_arrays > 0)
    /\ pc' = "fatal"
    /\ UNCHANGED <<op, args, mem, loc, thr, cache, live, reads, writes, ret>>

\* The cells of the sources, and the cells of ans, that a whole Append touches.
AppendReads(src) ==
    UNION { { Cell(src[k], j) : j \in 0..(src[k].dim1 - 1) } : k \in 1..Len(src) }

AppendWrites(ans) == { Cell(ans, j) : j \in 0..(ans.dim1 - 1) }

\* c is kCpu: ans is allocated and every source is copied in turn.
AppendCpu ==
    /\ op = "Append" /\ pc = "call"
    /\ args.num_arrays > 0
    /\ args.src[1].ctx.dev = kCpu
    /\ LET c == args.src[1].ctx
           row_splits_vec == RowSplitsVec(args.src)
           ans_size == row_splits_vec[args.num_arrays + 1]
           ans == AppendAns(mem, c, ans_size)
       IN /\ \E g \in Garbage :
                mem' = AppendCpuLoop(Append(mem, Fresh(ans_size)), c, args.src,
                                     ans, 1, 0, g)
          /\ loc' = [strategy |-> "cpu", ans |-> ans,
                     row_splits_vec |-> row_splits_vec]
          /\ reads' = AppendReads(args.src)
          /\ writes' = AppendWrites(ans)
    /\ pc' = "end"
    /\ UNCHANGED <<op, args, thr, cache, live, ret>>

\* c is kCuda and the sizes are balanced: row_splits and src_ptrs go to the
\* device and Eval2 queues lambda_set_data over num_arrays x max_dim.
AppendLaunchRect ==
    /\ op = "Append" /\ pc = "call"
    /\ args.num_arrays > 0
    /\ args.src[1].ctx.dev = kCuda
    /\ LET c == args.src[1].ctx
           row_splits_vec == RowSplitsVec(args.src)
           ans_size == row_splits_vec[args.num_arrays + 1]
           max_dim == MaxDimFrom(args.src, 1, 0)
           ans == AppendAns(mem, c, ans_size)
       IN /\ UseRectangular(max_dim, ans_size, args.num_arrays)
          /\ mem' = Append(mem, Fresh(ans_size))
          /\ loc' = [strategy |-> "rect", ans |-> ans,
                     row_splits_vec |-> row_splits_vec]
          /\ live' = {"row_splits", "src_ptrs"}
          /\ thr' = Eval2Pairs(args.num_arrays, max_dim,
                               {"row_splits", "src_ptrs"})
    /\ pc' = "end"
    /\ UNCHANGED <<op, args, cache, reads, writes, ret>>

\* c is kCuda and the sizes are not balanced: index_map goes to the device as
\* well and Eval2 queues lambda_set_data_blocks over its entries x block_dim.
AppendLaunchBlocks ==
    /\ op = "Append" /\ pc = "call"
    /\ args.num_arrays > 0
    /\ args.src[1].ctx.dev = kCuda
    /\ LET c == args.src[1].ctx
           row_splits_vec == RowSplitsVec(args.src)
           ans_size == row_splits_vec[args.num_arrays + 1]
           max_dim == MaxDimFrom(args.src, 1, 0)
           ans == AppendAns(mem, c, ans_size)
           block_dim == BlockDim(ans_size, args.num_arrays)
           index_map == IndexMapFrom(args.src, 0, block_dim)
       IN /\ ~UseRectangular(max_dim, ans_size, args.num_arrays)
          /\ mem' = Append(mem, Fresh(ans_size))
          /\ loc' = [strategy |-> "blocks", ans |-> ans,
                     row_splits_vec |-> row_splits_vec,
                     block_dim |-> block_dim, index_map |-> index_map]
          /\ live' = {"row_splits", "src_ptrs", "index_map_gpu"}
          /\ thr' = Eval2Pairs(Len(index_map), block_dim,
                               {"row_splits", "src_ptrs", "index_map_gpu"})
    /\ pc' = "end"
    /\ UNCHANGED <<op, args, cache, reads, writes, ret>>

\* The device runs one queued index pair.  With a scratch array it reads
\* already released, what it copies is what the array then holds, or anything.
AppendIndex(p) ==
    /\ op = "Append"
    /\ thr[p].ph = "pending"
    /\ LET cp == IF loc.strategy = "rect"
                 THEN RectCopy(loc.row_splits_vec, p[1], p[2])
                 ELSE BlockCopy(loc.row_splits_vec, loc.index_map,
                                loc.block_dim, p[1], p[2])
       IN IF cp = << >>
          THEN UNCHANGED <<mem, reads, writes>>
          ELSE /\ \E g \in Garbage :
                    LET v == SrcElem(mem, loc.ans.ctx, args.src[cp[1] + 1],
                                     cp[2], g)
                        copied == IF thr[p].uses \subseteq live
                                  THEN {v} ELSE {v, g}
                    IN \E x \in copied : mem' = Store(mem, loc.ans, cp[3], x)
               /\ reads' = reads \cup {Cell(args.src[cp[1] + 1], cp[2])}
               /\ writes' = writes \cup {Cell(loc.ans, cp[3])}
    /\ thr' = [thr EXCEPT ![p].ph = "done"]
    /\ UNCHANGED <<op, pc, args, loc, cache, live, ret>>

\* What the caller can find in the returned Array1 when the function has
\* flowed off its end: the function body has no return statement.
NoReturnValue(ans, src) == {ans, Array1(0, 0, 0, ans.ctx), src[1]}

\* Control reaches the closing brace of Append: the locals (row_splits,
\* src_ptrs, index_map_gpu) are destroyed and the caller gets its Array1.
AppendEnd ==
    /\ op = "Append" /\ pc = "end"
    /\ live' = {}
    /\ \E r \in NoReturnValue(loc.ans, args.src) : ret' = r
    /\ pc' = "returned"
    /\ UNCHANGED <<op, args, mem, loc, thr, cache, reads, writes>>

NextAppend ==
    \/ AppendFatal
    \/ AppendCpu
    \/ AppendLaunchRect
    \/ AppendLaunchBlocks
    \/ \E p \in DOMAIN thr : AppendIndex(p)
    \/ AppendEnd

SpecAppend == InitAppend /\ [][NextAppend]_vars

\* Append has returned and the device has run every index pair it queued.
AppendDone ==
    /\ op = "Append" /\ pc = "returned"
    /\ \A p \in DOMAIN thr : thr[p].ph = "done"

\* All the sources are on contexts compatible with the first one's.
SourcesCompatible(src) ==
    \A k \in 1..Len(src) : IsCompatible(src[1].ctx, src[k].ctx)

\* The array a holds the sources one after the other.
IsConcatenation(m, a, src) ==
    LET row_splits == RowSplitsVec(src)
    IN /\ a.region \in 1..Len(m)
       /\ a.dim1 = row_splits[Len(src) + 1]
       /\ a.offset + a.dim1 <= Len(m[a.region])
       /\ \A k \in 1..Len(src) : \A j \in 0..(src[k].dim1 - 1) :
              Load(m, a, row_splits[k] + j) = Load(m, src[k], j)

\* C1: Append(num_arrays, src) with num_arrays > 0 returns an array whose
\* length is the sum of the source lengths and whose element row_splits[k] + j
\* is src[k][j], on the sequential path and on both parallel strategies.
C1_AppendReturnsConcatenation ==
    (AppendDone /\ SourcesCompatible(args.src)) =>
        IsConcatenation(mem, ret, args.src)

(***************************************************************************)
(* Every operation that combines arrays, called by any caller: the         *)
(* destination views may lie in the Region of the source.                  *)
(***************************************************************************)
InitCalls ==
    \/ InitTransposeIn({1, 2})
    \/ InitExclusiveSumIn({1, 2})
    \/ InitExclusiveSumDeref
    \/ InitAppend
    \/ InitMaxPerSublist

NextCalls ==
    \/ NextTranspose
    \/ NextExclusiveSum
    \/ NextAppend
    \/ NextMaxPerSublist

SpecCalls == InitCalls /\ [][NextCalls]_vars

\* The call breaks a precondition: its dimensions do not match, its arrays
\* are on contexts that are not compatible, or its array count is not positive.
PreconditionViolated ==
    CASE op = "Transpose" ->
            \/ ~IsCompatible(args.c, args.src.ctx)
            \/ ~IsCompatible(args.c, args.dest.ctx)
            \/ args.src.dim0 # args.dest.dim1
            \/ args.src.dim1 # args.dest.dim0
      [] op = "ExclusiveSum" ->
            \/ ~IsCompatible(args.src.ctx, args.dest.ctx)
            \/ MinorDim(args.dest, args.axis) # MinorDim(args.src, args.axis)
            \/ MajorDim(args.dest, args.axis) \notin
                  {MajorDim(args.src, args.axis), MajorDim(args.src, args.axis) + 1}
      [] op = "ExclusiveSumDeref" ->
            \/ ~IsCompatible(args.src.ctx, args.dest.ctx)
            \/ args.dest.dim1 \notin {args.src.dim1, args.src.dim1 + 1}
      [] op = "Append" ->
            \/ args.num_arrays <= 0
            \/ ~SourcesCompatible(args.src)
      [] op = "MaxPerSublist" ->
            \/ args.src.dim0 # args.max_values.dim1
            \/ ~IsCompatible(args.src.ctx, args.max_values.ctx)
      [] OTHER -> FALSE

\* C7: a call that breaks a precondition goes nowhere but to the fatal
\* failure, and writes no destination element.
C7_PreconditionFatal ==
    PreconditionViolated =>
        /\ pc \in {"call", "fatal"}
        /\ writes = {}

\* The Regions read, and the Regions written, by the current step.
RegionsRead == { c[1] : c \in reads }
RegionsWritten == { c[1] : c \in writes }

\* C10 as stated: whatever views the caller passes, the Region written as
\* destination is distinct from the Region of every source.
C10_DestinationRegionDistinct ==
    (op \in {"Append", "ExclusiveSum", "Transpose"}) =>
        RegionsRead \cap RegionsWritten = {}

\* The call whose destination the operation allocates itself (Append's ans,
\* the transposed buffers of the axis-0 ExclusiveSum), or whose caller has
\* passed a destination view on another Region than the source's.
DestinationApart ==
    \/ op = "Append"
    \/ op = "ExclusiveSum" /\ args.axis = 0
    \/ op \in {"ExclusiveSum", "Transpose"} /\ args.dest.region # args.src.region

\* C10, amended: Append writes a Region of its own, and every step of the
\* axis-0 ExclusiveSum reads one Region and writes another; Transpose and the
\* axis-1 ExclusiveSum write the caller's dest, and read and write distinct
\* Regions when the caller has passed dest on another Region than src.
C10_DistinctWhenApart ==
    DestinationApart =>
        /\ RegionsRead \cap RegionsWritten = {}
        /\ reads \cap writes = {}

\* An Append on the device has copied the elements of two sources into ans,
\* or an axis-0 ExclusiveSum whose caller passed dest in the source's own
\* Region has written it.
C10_Witness ==
    \/ /\ op = "Append" /\ args.num_arrays = 2 /\ thr # << >>
       /\ Cardinality(RegionsRead) = 2 /\ Cardinality(writes) >= 2
    \/ /\ op = "ExclusiveSum" /\ args.axis = 0 /\ pc = "returned"
       /\ args.dest.region = args.src.region /\ writes # {}

(***************************************************************************)
(* RandUniformArray1, for an integral element type T                       *)
(***************************************************************************)
\* RAND_MAX of the host's rand(), and the longest array drawn.
RandMax == 3
MaxRandDim == 2

\* The bounds the callers pass: some beyond RAND_MAX in magnitude.
RandBounds == (0 - RandMax - 2)..(RandMax + 2)

Abs(x) == IF x < 0 THEN 0 - x ELSE x

\* data[i] for the value r that rand() has returned.
RandElement(min_value, max_value, r) ==
    IF max_value = min_value THEN 0
    ELSE IF Abs(min_value) > RandMax \/ Abs(max_value) > RandMax
    THEN min_value + ((r * (max_value - min_value)) \div RandMax)
    ELSE min_value + (r % (max_value + 1 - min_value))

\* A caller calls RandUniformArray1(c, dim, min_value, max_value).
InitRand ==
    \E c \in Contexts, dim \in 0..MaxRandDim,
       min_value \in RandBounds, max_value \in RandBounds :
        /\ op = "RandUniformArray1"
        /\ pc = "call"
        /\ args = [c |-> c, dim |-> dim, min_value |-> min_value,
                   max_value |-> max_value]
        /\ mem = << Fresh(dim) >>
        /\ loc = [i |-> 0, temp |-> Array1(1, 0, dim, CpuContext)]
        /\ thr = << >>
        /\ cache = << >>
        /\ live = {}
        /\ reads = {}
        /\ writes = {}
        /\ ret = "none"

\* K2_CHECK(max_value >= min_value) fails: the call is fatal.
RandFatal ==
    /\ op = "RandUniformArray1" /\ pc = "call"
    /\ ~(args.max_value >= args.min_value)
    /\ pc' = "fatal"
    /\ UNCHANGED <<op, args, mem, loc, thr, cache, live, reads, writes, ret>>

\* The check passes: the fill loop starts.
RandStart ==
    /\ op = "RandUniformArray1" /\ pc = "call"
    /\ args.max_value >= args.min_value
    /\ pc' = "fill"
    /\ UNCHANGED <<op, args, mem, loc, thr, cache, live, reads, writes, ret>>

\* One pass of the fill loop: rand() returns r.
RandFill ==
    /\ op = "RandUniformArray1" /\ pc = "fill"
    /\ loc.i < args.dim
    /\ \E r \in 0..RandMax :
          mem' = Store(mem, loc.temp, loc.i,
                       RandElement(args.min_value, args.max_value, r))
    /\ loc' = [loc EXCEPT !.i = loc.i + 1]
    /\ UNCHANGED <<op, pc, args, thr, cache, live, reads, writes, ret>>

\* return temp.To(c): the array goes to context c with the elements it holds.
RandReturn ==
    /\ op = "RandUniformArray1" /\ pc = "fill"
    /\ loc.i >= args.dim
    /\ mem' = Append(mem, mem[loc.temp.region])
    /\ ret' = Array1(NewRegion(mem), 0, args.dim, args.c)
    /\ pc' = "returned"
    /\ UNCHANGED <<op, args, loc, thr, cache, live, reads, writes>>

NextRand ==
    \/ RandFatal
    \/ RandStart
    \/ RandFill
    \/ RandReturn

SpecRand == InitRand /\ [][NextRand]_vars

\* C5: RandUniformArray1 with min_value <= max_value returns dim elements,
\* each in the closed interval [min_value, max_value].
C5_ElementsInRange ==
    (op = "RandUniformArray1" /\ pc = "returned") =>
        /\ ret.dim1 = args.dim
        /\ \A i \in 0..(args.dim - 1) :
              /\ args.min_value <= Load(mem, ret, i)
              /\ Load(mem, ret, i) <= args.max_value

(***************************************************************************)
(* ToContiguous                                                            *)
(***************************************************************************)
\* The test of ToContiguous: dim1 == elem_stride0.
IsContiguous(v) == v.dim1 = v.stride

\* Array2<T> ans(src.Context(), src.Dim0(), src.Dim1()): a contiguous array
\* in a Region of its own.
ContiguousAns(m, src) ==
    Array2(NewRegion(m), 0, src.dim0, src.dim1, src.dim1, src.ctx)

\* A copy that takes the rows of the source for contiguous.
CopyInIndexDense(src, i, j) == i * src.dim1 + j

\* The indexes of lambda_copy_elems: out[i * dim1 + j] = in[i * elem_stride0 + j]
CopyOutIndex(src, i, j) == i * src.dim1 + j
CopyInIndex(src, i, j) == i * src.stride + j

\* A caller calls ToContiguous(src) on a view of its Region.
InitToContiguous ==
    \E rows \in 0..MaxRows, cols \in 0..MaxCols, sp \in Pads, off \in 0..1,
       c \in Contexts :
        LET src == Array2(1, off, rows, cols, cols + sp, c)
        IN /\ op = "ToContiguous"
           /\ pc = "call"
           /\ args = [src |-> src]
           /\ mem = << Filled(off + rows * src.stride) >>
           /\ loc = [orig |-> src, stage |-> 1, first |-> NoView,
                     in |-> NoView, out |-> NoView]
           /\ thr = << >>
           /\ cache = << >>
           /\ live = {}
           /\ reads = {}
           /\ writes = {}
           /\ ret = "none"

\* dim1 == elem_stride0: return src.
ToContiguousSame ==
    /\ op = "ToContiguous" /\ pc = "call"
    /\ IsContiguous(args.src)
    /\ ret' = args.src
    /\ pc' = "returned"
    /\ UNCHANGED <<op, args, mem, loc, thr, cache, live, reads, writes>>

\* Otherwise ans is allocated and Eval2 queues lambda_copy_elems over
\* dim0 x dim1.
ToContiguousCopy ==
    /\ op = "ToContiguous" /\ pc = "call"
    /\ ~IsContiguous(args.src)
    /\ LET ans == ContiguousAns(mem, args.src)
       IN /\ mem' = Append(mem, Fresh(ans.dim0 * ans.dim1))
          /\ loc' = [loc EXCEPT !.in = args.src, !.out = ans]
    /\ thr' = Eval2Pairs(args.src.dim0, args.src.dim1, {})
    /\ pc' = "copying"
    /\ UNCHANGED <<op, args, cache, live, reads, writes, ret>>

\* One index pair of lambda_copy_elems runs.
ToContiguousIndex(p) ==
    /\ op = "ToContiguous"
    /\ thr[p].ph = "pending"
    /\ mem' = Store(mem, loc.out, CopyOutIndex(loc.in, p[1], p[2]),
                    Load(mem, loc.in, CopyInIndex(loc.in, p[1], p[2])))
    /\ thr' = [thr EXCEPT ![p].ph = "done"]
    /\ UNCHANGED <<op, pc, args, loc, cache, live, reads, writes, ret>>

\* Eval2 has returned (on the host backend it has run every pair by then, on
\* the device it has only queued them): return ans.
ToContiguousReturn ==
    /\ op = "ToContiguous" /\ pc = "copying"
    /\ \/ args.src.ctx.dev = kCuda
       \/ \A p \in DOMAIN thr : thr[p].ph = "done"
    /\ ret' = loc.out
    /\ pc' = "returned"
    /\ UNCHANGED <<op, args, mem, loc, thr, cache, live, reads, writes>>

\* The caller calls ToContiguous on the array it got.
ToContiguousAgain ==
    /\ op = "ToContiguous" /\ pc = "returned" /\ loc.stage = 1
    /\ args' = [src |-> ret]
    /\ loc' = [loc EXCEPT !.stage = 2, !.first = ret]
    /\ pc' = "call"
    /\ UNCHANGED <<op, mem, thr, cache, live, reads, writes, ret>>

NextToContiguous ==
    \/ ToContiguousSame
    \/ ToContiguousCopy
    \/ \E p \in DOMAIN thr : ToContiguousIndex(p)
    \/ ToContiguousReturn
    \/ ToContiguousAgain

SpecToContiguous == InitToContiguous /\ [][NextToContiguous]_vars

\* ToContiguous has returned and every index pair it queued has run.
ToContiguousDone ==
    /\ op = "ToContiguous" /\ pc = "returned"
    /\ \A p \in DOMAIN thr : thr[p].ph = "done"

\* C6: ToContiguous of a contiguous x is x itself, with nothing allocated and
\* nothing copied; of another x it is a contiguous array of the same
\* dimensions with element [i][j] equal to x[i][j]; and ToContiguous of the
\* result is the result.
C6_ToContiguousIdempotent ==
    ToContiguousDone =>
        LET x == loc.orig
            once == IF loc.stage = 1 THEN ret ELSE loc.first
        IN /\ IsContiguous(x) => (once = x /\ Len(mem) = 1)
           /\ ~IsContiguous(x) => once.region # x.region
           /\ once.stride = once.dim1
           /\ once.dim0 = x.dim0 /\ once.dim1 = x.dim1
           /\ \A i \in 0..(x.dim0 - 1), j \in 0..(x.dim1 - 1) :
                  At(mem, once, i, j) = At(mem, x, i, j)
           /\ loc.stage = 2 => ret = once

\* ToContiguous has run twice on a strided view of several rows and columns
\* at a non-zero offset.
C6_Witness ==
    /\ ToContiguousDone
    /\ loc.stage = 2
    /\ ~IsContiguous(loc.orig)
    /\ loc.orig.dim0 >= 2 /\ loc.orig.dim1 >= 2 /\ loc.orig.offset > 0
    /\ ret.region = 2

====
